---- MODULE Spec2Model ----
(***************************************************************************)
(* State-machine model of the simulation core of Santa's Pirate Seas       *)
(* (src/App.tsx, src/services/gemini.ts).                                  *)
(*                                                                         *)
(* Units.  Positions are world units (integers).  Velocities of ships are  *)
(* hundredths of a unit per frame, projectile velocities are units per     *)
(* frame, angular velocities are 1/10000 rad per frame, particle lives are *)
(* hundredths, dt is a whole number of nominal frames.  A rotation is a    *)
(* number of quarter turns (0 = +X, 1 = +Y, 2 = -X, 3 = -Y = -PI/2), for   *)
(* which cos and sin are exact.                                            *)
(*                                                                         *)
(* Of applyShipPhysics the angular velocity is computed (torque, drag,      *)
(* clamp).  The floating-point integration of rotation, velocity and       *)
(* position is not computed: its result is drawn from a finite set of      *)
(* poses, places a ship can sail to (the frame then stands for the last of *)
(* the frames that take it there), except where the code's result is exact *)
(* (a ship at rest with no input stays put).                               *)
(*                                                                         *)
(* Time.  Timestamps are counted from the timestamp of the latest          *)
(* animation frame, in 1/100 ms: lastTime is 0 after a frame has stored    *)
(* its timestamp, positive after initGame has stored performance.now().    *)
(* Every test the frame makes on positions (collision, range, bearing,     *)
(* bounds, delivery overlap, spawn distance) is computed from the          *)
(* positions as the code computes it.                                      *)
(***************************************************************************)
EXTENDS Integers, Sequences, FiniteSets, Bags, TLC

VARIABLES
  player,          \* gameState.current.player
  keys,            \* gameState.current.keys
  projectiles,     \* gameState.current.projectiles (array, in order)
  particles,       \* gameState.current.particles (bag of particle records)
  enemies,         \* gameState.current.enemies (array, in order)
  islands,         \* gameState.current.islands (array, in order)
  frameCount,      \* gameState.current.frameCount
  score,           \* useState score
  gameOver,        \* useState gameOver
  gameStarted,     \* useState gameStarted
  message,         \* useState message (NULL or a string)
  loadingMessage,  \* useState loadingMessage
  seen,            \* the state values of the last render: what the screen shows
                   \* and what the closure of update() captured
  timers,          \* number of pending setTimeout(() => spawnEnemy(), ...)
  fetches,         \* the deliverPresent calls suspended at their await
  lastTime,        \* gameState.current.lastTime, counted from the timestamp of
                   \* the latest animation frame, in 1/100 ms
  loop,            \* the effect's frame loop: "none" (not started), "start" (the
                   \* callback of line 604 is pending), "update" (that of line 598)
  session,         \* number of initGame calls so far (history)
  log              \* what the last step did (history)

vars == <<player, keys, projectiles, particles, enemies, islands, frameCount,
          score, gameOver, gameStarted, message, loadingMessage, seen, timers,
          fetches, lastTime, loop, session, log>>

(***************************************************************************)
(* Program constants                                                       *)
(***************************************************************************)
WORLD_SIZE == 4000
CANNON_SPEED == 9
CANNON_COOLDOWN == 50
ENEMY_COOLDOWN == 90
MAX_ANGULAR_VELOCITY == 250
TURN_TORQUE == 15
ANGULAR_DRAG == 96
FORWARD_DRAG == 99
SIDEWAYS_DRAG == 92
NumIslands == 12
InitialEnemies == 3
NumGlints == 80
EnemyCap == 8
MinSpawnDist == 1000
PlayerHealth == 100
EnemyHealth == 40
ShipRadius == 30
ProjectileRadius == 3
PlayerHitDamage == 8
EnemyHitDamage == 15
KillBounty == 150
DeliveryBounty == 500

NULL == "null"
WELCOME == "Welcome Captain! Use A/D to steer and W to hoist sails. SPACE fires Broadsides (Left & Right). Deliver presents to the islands!"
FALLBACK_EMPTY == "Arrr! The winds carry no words today."
FALLBACK_ERROR == "The sea is silent... (API Error)"

(***************************************************************************)
(* Bounds of the model                                                     *)
(***************************************************************************)
MaxFrames == 2

\* The keel drag on its own is computed for ships drifting at up to MaxSlow
\* hundredths of a unit per frame on each axis (the exact result, scaled,
\* must fit the integers of the checker), for dt in CoastDts.
MaxSlow == 8
CoastDts == {0, 1}

\* The values of dt the motion model is called with on its own.
DtSet == {1, 2}

\* The nominal frame period of line 280 (16.67 ms) and the cap on dt.
FramePeriod == 1667
MaxDt == 2

\* The time from one animation frame's timestamp to the next: a frame at
\* 60 Hz, a stall of 5 s.
ElapsedSet == {FramePeriod, 500000}

\* The time from the latest animation frame's timestamp to the
\* performance.now() of a click handler: the handler runs right after that
\* frame, or 20 ms after it (the next frame, whose timestamp is the time it
\* began, has begun but not yet run its callbacks).
PerfNowSet == {1, 2000}

\* The value every Math.random() call of one frame returns, in hundredths.
RandomSet == {50, 99}
\* The keys the user presses.
KeysUsed == {"w", "space"}

(***************************************************************************)
(* Helpers                                                                 *)
(***************************************************************************)
Max(a, b) == IF a > b THEN a ELSE b
Min(a, b) == IF a < b THEN a ELSE b
Abs(a) == IF a < 0 THEN -a ELSE a

\* Math.cos / Math.sin of a rotation given in quarter turns.
cosQ(r) == CASE r % 4 = 0 -> 1 [] r % 4 = 1 -> 0 [] r % 4 = 2 -> -1 [] OTHER -> 0
sinQ(r) == CASE r % 4 = 0 -> 0 [] r % 4 = 1 -> 1 [] r % 4 = 2 -> 0 [] OTHER -> -1

\* Square of Math.hypot(ax - bx, ay - by).
Dist2(ax, ay, bx, by) == (ax - bx) * (ax - bx) + (ay - by) * (ay - by)

\* dist < bound, for Math.hypot distances (bound may be <= 0).
DistLess(ax, ay, bx, by, bound) == bound > 0 /\ Dist2(ax, ay, bx, by) < bound * bound

RemoveAt(s, i) == SubSeq(s, 1, i - 1) \o SubSeq(s, i + 1, Len(s))

\* n copies of element e added to bag b.
AddCopies(b, e, n) == IF n <= 0 THEN b ELSE b (+) [x \in {e} |-> n]

(***************************************************************************)
(* Helpers of App.tsx                                                      *)
(***************************************************************************)
\* randomRange(min, max) = Math.random() * (max - min) + min, in hundredths.
randomRange(lo, hi, rnd) == lo + (rnd * (hi - lo)) \div 100

\* checkCollision(c1, c2): dist < c1.radius + c2.radius - 5.
checkCollision(c1, c2) ==
  DistLess(c1.x, c1.y, c2.x, c2.y, c1.radius + c2.radius - 5)

\* createExplosion(x, y, type, count): count fire particles of the explosion's
\* colour, then one smoke particle for every i < count / 2.
createExplosion(w, type, count) ==
  LET fire == [type |-> "fire",
               color |-> IF type = "red" THEN "#ef4444" ELSE "#f97316",
               life |-> randomRange(50, 100, w.rnd)]
      smoke == [type |-> "smoke", color |-> "rgba(100,100,100,0.5)",
                life |-> randomRange(100, 200, w.rnd)]
  IN [w EXCEPT !.particles =
        AddCopies(AddCopies(@, fire, count), smoke, (count + 1) \div 2)]

\* createWake(ship): two water particles behind the ship.
createWake(w) ==
  [w EXCEPT !.particles =
     AddCopies(@, [type |-> "water", color |-> "rgba(255, 255, 255, 0.3)",
                   life |-> 80], 2)]

\* spawnProjectile(x, y, angle, owner): a muzzle flash, a smoke puff and the
\* projectile, flying at CANNON_SPEED along angle (quarter turns).
spawnProjectile(w, x, y, angle, owner) ==
  LET muzzle == [type |-> "muzzle", color |-> "rgba(255,200,100,0.8)", life |-> 30]
      smoke == [type |-> "smoke", color |-> "rgba(200,200,200,0.4)", life |-> 60]
      proj == [x |-> x, y |-> y, radius |-> ProjectileRadius,
               vx |-> cosQ(angle) * CANNON_SPEED,
               vy |-> sinQ(angle) * CANNON_SPEED,
               owner |-> owner, damage |-> 10]
  IN [w EXCEPT !.particles = AddCopies(AddCopies(@, muzzle, 1), smoke, 1),
               !.projectiles = Append(@, proj)]

longitudinalOffsets == <<-15, -5, 5>>
lateralDist == 16

\* fireCannons(ship, owner, angleOffset): one volley of the three cannons of
\* one side; side is -1 for angleOffset = -PI/2 (port), 1 for PI/2.  The
\* random spread of +-0.1 rad is taken as 0.
RECURSIVE fireCannonsFrom(_, _, _, _, _)
fireCannonsFrom(w, ship, owner, side, k) ==
  IF k > Len(longitudinalOffsets) THEN w
  ELSE LET fwdOffset == longitudinalOffsets[k]
           fwdX == cosQ(ship.rotation)
           fwdY == sinQ(ship.rotation)
           rightX == -sinQ(ship.rotation)
           rightY == cosQ(ship.rotation)
           spawnX == ship.x + (fwdX * (0 - fwdOffset)) + (rightX * (side * lateralDist))
           spawnY == ship.y + (fwdY * (0 - fwdOffset)) + (rightY * (side * lateralDist))
       IN fireCannonsFrom(spawnProjectile(w, spawnX, spawnY, ship.rotation + side, owner),
                          ship, owner, side, k + 1)

fireCannons(w, ship, owner, side) == fireCannonsFrom(w, ship, owner, side, 1)

\* A broadside that forgets the starboard volley.
firePortOnly(w, owner) ==
  LET p == w.player
      recoiled == [p EXCEPT !.velocity = <<p.velocity[1] - cosQ(p.rotation) * 50,
                                           p.velocity[2] - sinQ(p.rotation) * 50>>]
  IN fireCannons([w EXCEPT !.player = recoiled], recoiled, owner, -1)

\* fireBroadside(ship, owner), called on the player only: recoil, then the
\* port volley, then the starboard volley.
fireBroadside(w, owner) ==
  LET p == w.player
      recoiled == [p EXCEPT !.velocity = <<p.velocity[1] - cosQ(p.rotation) * 50,
                                           p.velocity[2] - sinQ(p.rotation) * 50>>]
      w1 == [w EXCEPT !.player = recoiled]
  IN fireCannons(fireCannons(w1, recoiled, owner, -1), recoiled, owner, 1)

chaserOffsets == <<-5, 5>>

\* fireChasers(ship, owner): the two bow guns, 32 units ahead, fired along
\* the heading.
RECURSIVE fireChasersFrom(_, _, _, _)
fireChasersFrom(w, ship, owner, k) ==
  IF k > Len(chaserOffsets) THEN w
  ELSE LET offX == chaserOffsets[k]
           fwdX == cosQ(ship.rotation)
           fwdY == sinQ(ship.rotation)
           rightX == -sinQ(ship.rotation)
           rightY == cosQ(ship.rotation)
           spawnX == ship.x + (fwdX * 32) + (rightX * offX)
           spawnY == ship.y + (fwdY * 32) + (rightY * offX)
       IN fireChasersFrom(spawnProjectile(w, spawnX, spawnY, ship.rotation, owner),
                          ship, owner, k + 1)

fireChasers(w, ship, owner) == fireChasersFrom(w, ship, owner, 1)

(***************************************************************************)
(* Motion model and AI controller                                          *)
(***************************************************************************)
Pose(x, y, velocity, rotation) ==
  [x |-> x, y |-> y, velocity |-> velocity, rotation |-> rotation]

\* Where the integration can leave the player (before the boundary clamp):
\* the world centre, the spot of islands 1 and 2, the spot of island 3, a
\* point outside the world.
PlayerPoses ==
  { Pose(2000, 2000, <<0, -150>>, -1),
    Pose(1000, 2000, <<-150, 0>>, -1),
    Pose(1000, 3000, <<0, 150>>, -1),
    Pose(4100, -100, <<150, 0>>, -1) }

\* Where the integration can leave an enemy: 50 units to starboard of the
\* world centre heading -X, 50 units to port of it heading +X.
EnemyPoses ==
  { Pose(2050, 2000, <<0, 0>>, 2) }

\* How far a ship can get in one frame: its terminal speed, SHIP_THRUST /
\* (1 - FORWARD_DRAG) = 15 units a frame, times the largest dt.
FrameReach == 30

\* Where the integration can leave an enemy that is within a frame's reach
\* of the world's upper border and sails towards it: 2 units beyond the
\* border, still heading -Y (ship.y += ship.velocity.y * dt, line 235, with
\* nothing after it).
EdgePoses ==
  { Pose(2000, -2, <<0, -1188>>, 3) }

\* The poses the integration can leave enemy e in.
EnemyPosesFrom(e) ==
  IF e.y < FrameReach /\ e.velocity[2] < 0 THEN EdgePoses ELSE EnemyPoses

\* Lines 190-191: the torque of the two turn inputs.
torque(av, turnLeft, turnRight, dt) ==
  av - (IF turnLeft THEN TURN_TORQUE * dt ELSE 0)
     + (IF turnRight THEN TURN_TORQUE * dt ELSE 0)

RECURSIVE Pow(_, _)
Pow(b, n) == IF n = 0 THEN 1 ELSE b * Pow(b, n - 1)

\* Line 194: angularVelocity *= Math.pow(ANGULAR_DRAG, dt), rounded towards
\* zero to a whole number of 1/10000 rad.
angularDrag(av, dt) ==
  IF av >= 0 THEN (av * Pow(ANGULAR_DRAG, dt)) \div Pow(100, dt)
  ELSE 0 - (((0 - av) * Pow(ANGULAR_DRAG, dt)) \div Pow(100, dt))

\* An angular velocity left as the drag left it.
noClamp(av) == av

\* Line 196: the clamp to the maximum turn rate.
clampAngular(av) == Max(-MAX_ANGULAR_VELOCITY, Min(MAX_ANGULAR_VELOCITY, av))

\* applyShipPhysics(ship, thrust, turnLeft, turnRight, dt), lines 187-235.
\* The angular velocity is computed (torque, drag, clamp).  With no torque
\* and no angular velocity the angular part leaves the rotation as it is;
\* with no thrust and no velocity the linear part leaves velocity and
\* position as they are; otherwise rotation, velocity and position are
\* those of pose.
applyShipPhysics(ship, thrust, turnLeft, turnRight, pose, dt) ==
  LET angularRest == ship.angularVelocity = 0 /\ (turnLeft = turnRight)
      linearRest == ~thrust /\ ship.velocity = <<0, 0>>
      s1 == IF angularRest THEN ship
            ELSE [ship EXCEPT !.rotation = pose.rotation,
                              !.angularVelocity =
                                 clampAngular(angularDrag(
                                   torque(@, turnLeft, turnRight, dt), dt))]
  IN IF linearRest THEN s1
     ELSE [s1 EXCEPT !.x = pose.x, !.y = pose.y, !.velocity = pose.velocity]

\* The headings the keel drag is computed for: unit vectors (c / k, s / k)
\* with c * c + s * s = k * k, written <<c, s, k>>, for which cos and sin
\* are exact.
Headings ==
  {<<1, 0, 1>>, <<0, 1, 1>>, <<-1, 0, 1>>, <<0, -1, 1>>,
   <<3, 4, 5>>, <<-4, 3, 5>>, <<4, -3, 5>>, <<-3, -4, 5>>}

\* n / d rounded towards zero.
TowardZero(n, d) == IF n >= 0 THEN n \div d ELSE 0 - ((0 - n) \div d)

\* The factor the exact result of the keel drag is scaled by.
keelScale(h, dt) == h[3] * h[3] * Pow(100, dt)

\* A keel whose sideways drag pushes where it should brake.
keelSlips(v, h, dt) ==
  LET dotForward == v[1] * h[1] + v[2] * h[2]
      dotRight == v[2] * h[1] - v[1] * h[2]
      newForwardMag == dotForward * Pow(FORWARD_DRAG, dt)
      newRightMag == dotRight * Pow(200 - SIDEWAYS_DRAG, dt)
  IN <<newForwardMag * h[1] - newRightMag * h[2],
       newForwardMag * h[2] + newRightMag * h[1]>>

\* Lines 213-231 with no thrust: the velocity v decomposed along the heading
\* h (forward) and across it (right), each part dragged, the parts
\* recomposed.  The result is exact, scaled by keelScale(h, dt).
keelDrag(v, h, dt) ==
  LET dotForward == v[1] * h[1] + v[2] * h[2]
      dotRight == v[2] * h[1] - v[1] * h[2]
      newForwardMag == dotForward * Pow(FORWARD_DRAG, dt)
      newRightMag == dotRight * Pow(SIDEWAYS_DRAG, dt)
  IN <<newForwardMag * h[1] - newRightMag * h[2],
       newForwardMag * h[2] + newRightMag * h[1]>>

\* The velocity the ship keeps: the result of the keel drag in hundredths,
\* rounded towards zero.
coast(v, h, dt) ==
  <<TowardZero(keelDrag(v, h, dt)[1], keelScale(h, dt)),
    TowardZero(keelDrag(v, h, dt)[2], keelScale(h, dt))>>

\* speed > 1 && Math.random() > 0.8, lines 237-241.
makesWake(ship, rnd) ==
  /\ ship.velocity[1] * ship.velocity[1] + ship.velocity[2] * ship.velocity[2] > 100 * 100
  /\ rnd > 80

\* tan(0.1), tan(0.3), tan(1.0) in 1/100000: |angleDiff| < a, for a below
\* PI/2, is forward > 0 /\ |lateral| < tan(a) * forward.
Tan01 == 10033
Tan03 == 30934
Tan10 == 155741

\* The enemy's steering and firing decision, lines 315-329 and 336: the
\* vector to the player in the enemy's frame (forward, lateral) gives
\* angleDiff = atan2(lateral, forward) once normalised into [-PI, PI].
decide(enemy, p) ==
  LET dx == p.x - enemy.x
      dy == p.y - enemy.y
      forward == dx * cosQ(enemy.rotation) + dy * sinQ(enemy.rotation)
      lateral == dy * cosQ(enemy.rotation) - dx * sinQ(enemy.rotation)
      \* atan2 of an axis-aligned vector, in quarter turns, minus the
      \* rotation, brought into [-2, 2] by the two while loops (line 322-324)
      quarter == CASE dx = 0 /\ dy = 0 -> 0
                   [] dy = 0 /\ dx > 0 -> 0
                   [] dy = 0 /\ dx < 0 -> 2
                   [] dx = 0 /\ dy > 0 -> 1
                   [] OTHER -> -1
      raw == quarter - enemy.rotation
      norm == IF raw < -2 THEN raw + 4 * ((-2 - raw + 3) \div 4)
              ELSE IF raw > 2 THEN raw - 4 * ((raw - 2 + 3) \div 4) ELSE raw
      behind == lateral = 0 /\ forward <= 0 /\ ~(dx = 0 /\ dy = 0)
      origin == dx = 0 /\ dy = 0
      within(t) == IF origin THEN norm = 0
                   ELSE forward > 0 /\ Abs(lateral) * 100000 < t * forward
      positive == IF origin \/ behind THEN norm > 0 ELSE lateral > 0
      negative == IF origin \/ behind THEN norm < 0 ELSE lateral < 0
  IN [turnLeft |-> negative /\ ~within(Tan01),
      turnRight |-> positive /\ ~within(Tan01),
      thrust |-> ~DistLess(p.x, p.y, enemy.x, enemy.y, 250)
                 /\ Dist2(p.x, p.y, enemy.x, enemy.y) # 250 * 250
                 /\ within(Tan10),
      inRange |-> DistLess(p.x, p.y, enemy.x, enemy.y, 500),
      aligned |-> within(Tan03)]

(***************************************************************************)
(* update(time), lines 278-440.  The frame works on a record w holding the *)
(* stores and the state setters' targets, the frame's inputs (dt, rnd, the *)
(* poses), the closure values c captured by the effect (message,           *)
(* loadingMessage, gameOver) and the log of what the frame did.            *)
(***************************************************************************)
\* The number of particles of one type / of one colour in a store.
CountType(parts, type) ==
  LET ps == {q \in BagToSet(parts) : q.type = type}
  IN BagCardinality([q \in ps |-> parts[q]])

CountColor(parts, color) ==
  LET ps == {q \in BagToSet(parts) : q.color = color}
  IN BagCardinality([q \in ps |-> parts[q]])

\* Lines 286-288.
GameOverCheck(w) ==
  IF ~w.player.active /\ ~w.c.gameOver THEN [w EXCEPT !.gameOver = TRUE] ELSE w

\* A player logic without the boundary clamp.
PlayerMoveUnclamped(w) ==
  LET p1 == applyShipPhysics(w.player, w.keys.w, w.keys.a, w.keys.d, w.pp, w.dt)
  IN [(IF makesWake(p1, w.rnd) THEN createWake(w) ELSE w) EXCEPT !.player = p1]

\* Lines 296-301: the physics step, the wake, the boundary clamp.
PlayerMove(w) ==
  LET p1 == applyShipPhysics(w.player, w.keys.w, w.keys.a, w.keys.d, w.pp, w.dt)
  IN [(IF makesWake(p1, w.rnd) THEN createWake(w) ELSE w)
        EXCEPT !.player = [p1 EXCEPT !.x = Max(0, Min(WORLD_SIZE, p1.x)),
                                     !.y = Max(0, Min(WORLD_SIZE, p1.y))]]

\* Line 304.
PlayerCool(w) ==
  IF w.player.cooldown > 0 THEN [w EXCEPT !.player.cooldown = @ - 1 * w.dt] ELSE w

\* The log entry of one broadside: what it added to the stores.
LogBroadside(before, after) ==
  [after EXCEPT !.broadsides = Append(@,
     [projectiles |-> Len(after.projectiles) - Len(before.projectiles),
      owners |-> {after.projectiles[k].owner :
                    k \in (Len(before.projectiles) + 1)..Len(after.projectiles)},
      rotation |-> before.player.rotation,
      velocities |-> [k \in 1..(Len(after.projectiles) - Len(before.projectiles)) |->
                        <<after.projectiles[Len(before.projectiles) + k].vx,
                          after.projectiles[Len(before.projectiles) + k].vy>>],
      muzzle |-> CountType(after.particles, "muzzle")
                   - CountType(before.particles, "muzzle"),
      smoke |-> CountType(after.particles, "smoke")
                  - CountType(before.particles, "smoke"),
      cooldown |-> after.player.cooldown])]

\* A player who fires whenever the fire key is down.
PlayerFireAtWill(w) ==
  IF w.keys.space
  THEN LogBroadside(w, [fireBroadside(w, "player")
                          EXCEPT !.player.cooldown = CANNON_COOLDOWN])
  ELSE w

\* Lines 305-308.
PlayerFire(w) ==
  IF w.keys.space /\ w.player.cooldown <= 0
  THEN LogBroadside(w, [fireBroadside(w, "player")
                          EXCEPT !.player.cooldown = CANNON_COOLDOWN])
  ELSE w

\* The player logic without its pause gate.
PlayerPhaseUngated(w) == PlayerFire(PlayerCool(PlayerMove(w)))

\* The player logic for a player afloat or sunk.
PlayerPhaseNoActiveCheck(w) ==
  IF w.c.message = NULL THEN PlayerFire(PlayerCool(PlayerMove(w))) ELSE w

\* Player logic, lines 295-309.
PlayerPhase(w) ==
  IF w.player.active /\ w.c.message = NULL
  THEN PlayerFire(PlayerCool(PlayerMove(w)))
  ELSE w

\* Line 331 for enemy i, with its decision d: the physics step and the
\* wake.
EnemyMove(w, i, d) ==
  LET e1 == applyShipPhysics(w.enemies[i], d.thrust, d.turnLeft, d.turnRight,
                            w.ep[i], w.dt)
  IN [(IF makesWake(e1, w.rnd) THEN createWake(w) ELSE w) EXCEPT !.enemies[i] = e1]

\* Line 334.
EnemyCool(w, i) ==
  IF w.enemies[i].cooldown > 0
  THEN [w EXCEPT !.enemies[i].cooldown = @ - 1 * w.dt] ELSE w

LogChasers(before, i, after) ==
  [after EXCEPT !.chasers = Append(@,
     [enemy |-> i,
      projectiles |-> Len(after.projectiles) - Len(before.projectiles),
      owners |-> {after.projectiles[k].owner :
                    k \in (Len(before.projectiles) + 1)..Len(after.projectiles)}])]

\* An enemy that fires at any distance.
EnemyFireAnyRange(w, i, d) ==
  IF w.enemies[i].cooldown <= 0 /\ d.aligned
  THEN LogChasers(w, i, [fireChasers(w, w.enemies[i], "enemy")
                           EXCEPT !.enemies[i].cooldown = ENEMY_COOLDOWN])
  ELSE w

\* Lines 336-339.
EnemyFire(w, i, d) ==
  IF d.inRange /\ w.enemies[i].cooldown <= 0 /\ d.aligned
  THEN LogChasers(w, i, [fireChasers(w, w.enemies[i], "enemy")
                           EXCEPT !.enemies[i].cooldown = ENEMY_COOLDOWN])
  ELSE w

EnemyAct(w, i, d) == EnemyFire(EnemyCool(EnemyMove(w, i, d), i), i, d)

\* One pass of the forEach of the enemy logic, lines 312-340.
EnemyStep(w, i) ==
  IF w.enemies[i].active /\ w.c.message = NULL
  THEN EnemyAct(w, i, decide(w.enemies[i], w.player))
  ELSE w

RECURSIVE EnemyLoop(_, _)
EnemyLoop(w, i) ==
  IF i > Len(w.enemies) THEN w ELSE EnemyLoop(EnemyStep(w, i), i + 1)

EnemyPhase(w) == EnemyLoop(w, 1)

\* Whether the physics step leaves enemy e exactly where it is: no torque,
\* no angular velocity, no thrust, no velocity.
AtRest(e, d) ==
  /\ e.angularVelocity = 0
  /\ d.turnLeft = d.turnRight
  /\ ~d.thrust
  /\ e.velocity = <<0, 0>>

\* The enemies the motion model moves this frame (those whose pose is an
\* input of the frame).
Movers(w) ==
  {i \in 1..Len(w.enemies) :
     /\ w.enemies[i].active
     /\ w.c.message = NULL
     /\ ~AtRest(w.enemies[i], decide(w.enemies[i], w.player))}

\* The last active enemy the projectile collides with, in store order.
LastHit(w, proj) ==
  LET hit == {j \in 1..Len(w.enemies) :
                w.enemies[j].active /\ checkCollision(proj, w.enemies[j])}
  IN IF hit = {} THEN 0 ELSE CHOOSE j \in hit : \A k \in hit : j >= k

\* The first active enemy the projectile collides with, in store order
\* (0 if none), lines 386-388.
FirstHit(w, proj) ==
  LET hit == {j \in 1..Len(w.enemies) :
                w.enemies[j].active /\ checkCollision(proj, w.enemies[j])}
  IN IF hit = {} THEN 0 ELSE CHOOSE j \in hit : \A k \in hit : j <= k

\* The log entry of one hit of projectile i: the target before and after,
\* where the projectile was, the enemies it overlapped and those afloat.
LogHit(before, target, index, i, after) ==
  LET old == IF target = "player" THEN before.player ELSE before.enemies[index]
      new == IF target = "player" THEN after.player ELSE after.enemies[index]
  IN [after EXCEPT !.hits = Append(@,
        [target |-> target, index |-> index, owner |-> before.projectiles[i].owner,
         before |-> old.health, after |-> new.health,
         wasActive |-> old.active, active |-> new.active,
         removed |-> Len(before.projectiles) - Len(after.projectiles),
         x |-> before.projectiles[i].x, y |-> before.projectiles[i].y,
         overlapped |-> {j \in 1..Len(before.enemies) :
                           checkCollision(before.projectiles[i], before.enemies[j])},
         afloat |-> {j \in 1..Len(before.enemies) : before.enemies[j].active},
         red |-> CountColor(after.particles, "#ef4444")
                   - CountColor(before.particles, "#ef4444"),
         score |-> after.score - before.score,
         timers |-> after.timers - before.timers])]

\* A hit on an enemy that deals the damage of a hit on the player.
DamageEnemyByEight(w, j) ==
  createExplosion([w EXCEPT !.enemies[j].health = @ - PlayerHitDamage], "orange", 8)

\* Lines 389-390: the damage to enemy j and the small explosion.
DamageEnemy(w, j) ==
  createExplosion([w EXCEPT !.enemies[j].health = @ - EnemyHitDamage], "orange", 8)

\* A sinking that schedules no respawn.
SinkEnemyNoRespawn(w, j) ==
  IF w.enemies[j].health <= 0
  THEN [createExplosion([w EXCEPT !.enemies[j].active = FALSE], "red", 40)
          EXCEPT !.score = @ + KillBounty]
  ELSE w

\* Lines 392-399: the enemy sinks; the bounty, the respawn timer and, with
\* Math.random() > 0.6, a second one.
SinkEnemy(w, j) ==
  IF w.enemies[j].health <= 0
  THEN [createExplosion([w EXCEPT !.enemies[j].active = FALSE], "red", 40)
          EXCEPT !.score = @ + KillBounty,
                 !.timers = @ + 1 + (IF w.rnd > 60 THEN 1 ELSE 0)]
  ELSE w

\* Lines 403-405.
RemoveProjectile(w, i) == [w EXCEPT !.projectiles = RemoveAt(@, i)]

\* Projectile vs enemy: the hit on enemy j, lines 389-405.
HitEnemy(w, i, j) ==
  LogHit(w, "enemy", j, i, RemoveProjectile(SinkEnemy(DamageEnemy(w, j), j), i))

\* A hit that repairs the player's hull.
RepairPlayer(w) ==
  createExplosion([w EXCEPT !.player.health = @ + PlayerHitDamage], "orange", 15)

\* Lines 371-372: the damage to the player and the explosion.
DamagePlayer(w) ==
  createExplosion([w EXCEPT !.player.health = @ - PlayerHitDamage], "orange", 15)

\* Lines 375-378.
SinkPlayer(w) ==
  IF w.player.health <= 0
  THEN createExplosion([w EXCEPT !.player.active = FALSE], "red", 60)
  ELSE w

\* Projectile vs player: the hit, lines 370-379.
HitPlayer(w, i) ==
  LogHit(w, "player", 0, i, SinkPlayer(RemoveProjectile(DamagePlayer(w), i)))

\* Lines 347-354: the projectile moves and may leave a trail particle.
Fly(w, i) ==
  [w EXCEPT !.projectiles[i].x = @ + w.projectiles[i].vx * w.dt,
            !.projectiles[i].y = @ + w.projectiles[i].vy * w.dt,
            !.particles =
               IF w.rnd > 70
               THEN AddCopies(@, [type |-> "smoke", color |-> "rgba(220,220,220,0.2)",
                                  life |-> 40], 1)
               ELSE @]

\* A projectile loop without the test on the world's bounds.
ResolveNoBounds(w, i) ==
  LET proj == w.projectiles[i]
  IN IF proj.owner = "enemy"
     THEN IF w.player.active /\ checkCollision(proj, w.player)
          THEN HitPlayer(w, i) ELSE w
     ELSE IF FirstHit(w, proj) # 0
     THEN HitEnemy(w, i, FirstHit(w, proj))
     ELSE w

\* A collision test that ignores the projectile's owner.
ResolveAnyOwner(w, i) ==
  LET proj == w.projectiles[i]
  IN IF proj.x < 0 \/ proj.x > WORLD_SIZE \/ proj.y < 0 \/ proj.y > WORLD_SIZE
     THEN [RemoveProjectile(w, i) EXCEPT !.outOfBounds = @ + 1]
     ELSE IF w.player.active /\ checkCollision(proj, w.player)
     THEN HitPlayer(w, i)
     ELSE IF FirstHit(w, proj) # 0
     THEN HitEnemy(w, i, FirstHit(w, proj))
     ELSE w

\* Lines 357-406: out of bounds, projectile vs player, projectile vs enemy.
Resolve(w, i) ==
  LET proj == w.projectiles[i]
  IN IF proj.x < 0 \/ proj.x > WORLD_SIZE \/ proj.y < 0 \/ proj.y > WORLD_SIZE
     THEN [RemoveProjectile(w, i) EXCEPT !.outOfBounds = @ + 1]
     ELSE IF proj.owner = "enemy"
     THEN IF w.player.active /\ checkCollision(proj, w.player)
          THEN HitPlayer(w, i) ELSE w
     ELSE IF FirstHit(w, proj) # 0
     THEN HitEnemy(w, i, FirstHit(w, proj))
     ELSE w

\* One pass of the projectile loop, lines 344-407 (after the break test).
ProjectileStep(w, i) == Resolve(Fly(w, i), i)

\* for (let i = s.projectiles.length - 1; i >= 0; i--), with the break on
\* message at line 345.
RECURSIVE ProjectileLoop(_, _)
ProjectileLoop(w, i) ==
  IF i < 1 \/ w.c.message # NULL THEN w
  ELSE ProjectileLoop(ProjectileStep(w, i), i - 1)

ProjectilePhase(w) == ProjectileLoop(w, Len(w.projectiles))

\* A delivery that pays no bounty.
deliverPresentUnpaid(w, i) ==
  [w EXCEPT !.islands[i].delivered = TRUE,
            !.loadingMessage = TRUE,
            !.fetches = @ \cup {[session |-> w.session, island |-> i]},
            !.deliveries = Append(@, i)]

\* deliverPresent(island) up to its await, lines 990-995.
deliverPresent(w, i) ==
  [w EXCEPT !.islands[i].delivered = TRUE,
            !.score = @ + DeliveryBounty,
            !.loadingMessage = TRUE,
            !.fetches = @ \cup {[session |-> w.session, island |-> i]},
            !.deliveries = Append(@, i)]

\* A delivery check that does not skip delivered islands.
DeliveryStepAgain(w, i) ==
  IF DistLess(w.player.x, w.player.y, w.islands[i].x, w.islands[i].y,
              w.islands[i].radius + w.player.radius)
  THEN deliverPresent(w, i)
  ELSE w

\* One pass of the forEach of lines 412-418.
DeliveryStep(w, i) ==
  IF /\ ~w.islands[i].delivered
     /\ DistLess(w.player.x, w.player.y, w.islands[i].x, w.islands[i].y,
                 w.islands[i].radius + w.player.radius)
  THEN deliverPresent(w, i)
  ELSE w

RECURSIVE DeliveryLoop(_, _)
DeliveryLoop(w, i) ==
  IF i > Len(w.islands) THEN w ELSE DeliveryLoop(DeliveryStep(w, i), i + 1)

\* A delivery gate that forgets the loading state.
DeliveryPhaseNoLoadingGate(w) ==
  IF w.player.active /\ w.c.message = NULL THEN DeliveryLoop(w, 1) ELSE w

\* Island delivery, lines 411-419.
DeliveryPhase(w) ==
  IF w.player.active /\ w.c.message = NULL /\ ~w.c.loadingMessage
  THEN DeliveryLoop(w, 1) ELSE w

\* A particle loop that removes a particle only below life 0.
ParticlePhaseBelowZero(w) ==
  LET ps == BagToSet(w.particles)
      aged(q) == IF q.type = "glint" THEN q ELSE [q EXCEPT !.life = @ - 2 * w.dt]
      kept == {q \in ps : aged(q).type = "glint" \/ aged(q).life >= 0}
  IN [w EXCEPT !.particles =
        [r \in {aged(q) : q \in kept} |->
           w.particles[CHOOSE q \in kept : aged(q) = r]],
               !.expired =
        BagCardinality(w.particles)
          - BagCardinality([q \in kept |-> w.particles[q]])]

\* Particles, lines 422-437: glints stay; every other particle loses
\* 0.02 * dt of life and is removed at life <= 0.
ParticlePhase(w) ==
  LET ps == BagToSet(w.particles)
      aged(q) == IF q.type = "glint" THEN q ELSE [q EXCEPT !.life = @ - 2 * w.dt]
      kept == {q \in ps : aged(q).type = "glint" \/ aged(q).life > 0}
  IN [w EXCEPT !.particles =
        [r \in {aged(q) : q \in kept} |->
           w.particles[CHOOSE q \in kept : aged(q) = r]],
               !.expired =
        BagCardinality(w.particles)
          - BagCardinality([q \in kept |-> w.particles[q]])]

\* A frame that runs the projectile phase before the enemy phase.
updateRestProjectilesFirst(w) ==
  ParticlePhase(DeliveryPhase(EnemyPhase(ProjectilePhase(w))))

\* The frame after the player logic and the choice of the enemies' poses.
updateRest(w) == ParticlePhase(DeliveryPhase(ProjectilePhase(EnemyPhase(w))))

(***************************************************************************)
(* Session initialisation and enemy spawn                                  *)
(***************************************************************************)
\* The values Math.random() * WORLD_SIZE draws for (ex, ey), line 137-138.
SpawnPoints == {<<3000, 2000>>, <<2050, 2000>>}
\* The values Math.random() * Math.PI * 2 draws for the rotation, line 147.
SpawnRotations == {2}

\* A spawn that takes its first draw, wherever it lies.
SpawnAnywhere(p) == SpawnPoints

\* The do-while of spawnEnemy, lines 135-140: the draw that leaves the
\* loop is any draw with !(dist < 1000).
SpawnPlaces(p) ==
  {pt \in SpawnPoints : ~DistLess(pt[1], pt[2], p.x, p.y, MinSpawnDist)}

\* The record pushed at lines 142-157.
NewEnemy(pt, rotation) ==
  [x |-> pt[1], y |-> pt[2], radius |-> ShipRadius, rotation |-> rotation,
   active |-> TRUE, velocity |-> <<0, 0>>, angularVelocity |-> 0,
   health |-> EnemyHealth, maxHealth |-> EnemyHealth, cooldown |-> 0]

\* A spawn that never finds the store full.
SpawnNeverRejected(es) == FALSE

\* if (s.enemies.length > 8) return, line 133.
SpawnRejected(es) == Len(es) > EnemyCap

ActiveCount(es) == Cardinality({i \in 1..Len(es) : es[i].active})

\* The log entry of one spawn request: the store and the player's position
\* it found, the records it appended.
LogSpawn(before, after) ==
  [after EXCEPT !.spawns = Append(@,
     [length |-> Len(before.enemies), active |-> ActiveCount(before.enemies),
      px |-> before.player.x, py |-> before.player.y,
      added |-> SubSeq(after.enemies, Len(before.enemies) + 1, Len(after.enemies))])]

\* spawnEnemy(), lines 131-158, with the draw (pt, rotation) that left the
\* loop; st has the fields player, enemies and spawns (the log).
spawnEnemy(st, pt, rotation) ==
  LogSpawn(st, IF SpawnRejected(st.enemies) THEN st
               ELSE [st EXCEPT !.enemies = Append(@, NewEnemy(pt, rotation))])

\* The 12 islands of lines 90-109.  Positions are draws of
\* randomRange(200, WORLD_SIZE - 200) at least 500 from the world centre,
\* radii draws of randomRange(70, 100).  Islands 1 and 2 lie on each other.
IslandSpot(i) ==
  CASE i = 1 -> [x |-> 1000, y |-> 2000, radius |-> 70]
    [] i = 2 -> [x |-> 1000, y |-> 2000, radius |-> 99]
    [] i = 3 -> [x |-> 1000, y |-> 3000, radius |-> 70]
    [] OTHER -> [x |-> 200 + 300 * (i - 3), y |-> 3800, radius |-> 85]

NewIslands ==
  [i \in 1..NumIslands |->
     [x |-> IslandSpot(i).x, y |-> IslandSpot(i).y, radius |-> IslandSpot(i).radius,
      delivered |-> FALSE]]

Glint == [type |-> "glint", color |-> "white", life |-> 100]

EmptyLog(op) ==
  [op |-> op, paused |-> FALSE, dt |-> 0, broadsides |-> <<>>, chasers |-> <<>>,
   hits |-> <<>>, deliveries |-> <<>>, outOfBounds |-> 0, spawns |-> <<>>,
   completed |-> <<>>, response |-> <<>>, expired |-> 0]

\* The state the component is constructed with, lines 45-68.
Init ==
  /\ player = [x |-> WORLD_SIZE \div 2, y |-> WORLD_SIZE \div 2, radius |-> ShipRadius,
               rotation |-> 0, active |-> TRUE, velocity |-> <<0, 0>>,
               angularVelocity |-> 0, health |-> PlayerHealth,
               maxHealth |-> PlayerHealth, cooldown |-> 0]
  /\ keys = [w |-> FALSE, a |-> FALSE, s |-> FALSE, d |-> FALSE, space |-> FALSE]
  /\ projectiles = <<>>
  /\ particles = EmptyBag
  /\ enemies = <<>>
  /\ islands = <<>>
  /\ frameCount = 0
  /\ score = 0
  /\ gameOver = FALSE
  /\ gameStarted = FALSE
  /\ message = NULL
  /\ loadingMessage = FALSE
  /\ seen = [message |-> NULL, loadingMessage |-> FALSE, gameOver |-> FALSE,
             gameStarted |-> FALSE]
  /\ timers = 0
  /\ fetches = {}
  /\ lastTime = 0
  /\ loop = "none"
  /\ session = 0
  /\ log = EmptyLog("init")

\* for (let i = 0; i < 3; i++) spawnEnemy(), line 112, with the draws pts.
RECURSIVE spawnAll(_, _, _, _)
spawnAll(st, pts, rotation, k) ==
  IF k > Len(pts) THEN st
  ELSE spawnAll(spawnEnemy(st, pts[k], rotation), pts, rotation, k + 1)

\* initGame(), lines 71-129, with the draws of its three spawnEnemy calls.
\* A click handler: React renders before the handler's event ends, so the
\* screen and the effect's closure show the new state at once, and the
\* effect, one of whose dependencies (gameStarted, gameOver) has changed,
\* cancels its frame loop and starts it again (lines 604-609).
initGame(started) ==
  LET p0 == [player EXCEPT !.x = WORLD_SIZE \div 2, !.y = WORLD_SIZE \div 2,
                           !.velocity = <<0, 0>>, !.angularVelocity = 0,
                           !.health = PlayerHealth, !.active = TRUE, !.rotation = -1]
      st0 == [player |-> p0, enemies |-> <<>>, spawns |-> <<>>]
  IN \E pts \in [1..InitialEnemies -> SpawnPlaces(p0)], r \in SpawnRotations :
     \E st \in {spawnAll(st0, pts, r, 1)} :
       /\ lastTime' \in PerfNowSet
       /\ loop' = "start"
       /\ player' = p0
       /\ projectiles' = <<>>
       /\ particles' = AddCopies(EmptyBag, Glint, NumGlints)
       /\ enemies' = st.enemies
       /\ islands' = NewIslands
       /\ score' = 0
       /\ gameOver' = FALSE
       /\ message' = WELCOME
       /\ gameStarted' = started
       /\ seen' = [message |-> WELCOME, loadingMessage |-> loadingMessage,
                   gameOver |-> FALSE, gameStarted |-> started]
       /\ session' = session + 1
       /\ log' = [EmptyLog("initGame") EXCEPT !.spawns = st.spawns]
       /\ UNCHANGED <<keys, frameCount, loadingMessage, timers, fetches>>

\* SET SAIL, line 1020: shown while the game has not started.
SetSail == ~seen.gameStarted /\ initGame(TRUE)

\* TRY AGAIN, lines 1120-1133: shown while the game-over screen is shown.
TryAgain == seen.gameStarted /\ seen.gameOver /\ initGame(gameStarted)

\* Continue Voyage, lines 1107-1113: shown with a message and no loading
\* state.
Dismiss ==
  /\ (seen.message # NULL \/ seen.loadingMessage)
  /\ ~seen.loadingMessage
  /\ message' = NULL
  /\ seen' = [seen EXCEPT !.message = NULL]
  /\ loop' = "start"
  /\ log' = EmptyLog("dismiss")
  /\ UNCHANGED <<player, keys, projectiles, particles, enemies, islands, frameCount,
                 score, gameOver, gameStarted, loadingMessage, timers, fetches,
                 lastTime, session>>

\* handleKeyDown / handleKeyUp, lines 162-177.
KeyDown ==
  \E k \in KeysUsed :
    /\ ~keys[k]
    /\ keys' = [keys EXCEPT ![k] = TRUE]
    /\ log' = EmptyLog("key")
    /\ UNCHANGED <<player, projectiles, particles, enemies, islands, frameCount, score,
                   gameOver, gameStarted, message, loadingMessage, seen, timers, fetches,
                   lastTime, loop, session>>

KeyUp ==
  \E k \in KeysUsed :
    /\ keys[k]
    /\ keys' = [keys EXCEPT ![k] = FALSE]
    /\ log' = EmptyLog("key")
    /\ UNCHANGED <<player, projectiles, particles, enemies, islands, frameCount, score,
                   gameOver, gameStarted, message, loadingMessage, seen, timers, fetches,
                   lastTime, loop, session>>

\* A render after state set outside an event handler (in a frame, in the
\* continuation of deliverPresent): the screen shows the new state and the
\* effect of lines 272-610 runs again, so update() captures it.
Render ==
  /\ seen # [message |-> message, loadingMessage |-> loadingMessage,
             gameOver |-> gameOver, gameStarted |-> gameStarted]
  /\ seen' = [message |-> message, loadingMessage |-> loadingMessage,
              gameOver |-> gameOver, gameStarted |-> gameStarted]
  /\ loop' = IF gameStarted THEN "start" ELSE "none"
  /\ log' = EmptyLog("render")
  /\ UNCHANGED <<player, keys, projectiles, particles, enemies, islands, frameCount,
                 score, gameOver, gameStarted, message, loadingMessage, timers, fetches,
                 lastTime, session>>

\* A start of the frame loop that leaves lastTime as it finds it.
LoopStartNoStamp ==
  /\ loop = "start"
  /\ loop' = "update"
  /\ log' = EmptyLog("loopStart")
  /\ UNCHANGED <<player, keys, projectiles, particles, enemies, islands, frameCount,
                 score, gameOver, gameStarted, message, loadingMessage, seen, timers,
                 fetches, lastTime, session>>

\* The first animation frame of a (re)started loop, lines 604-607: it
\* stamps lastTime with its own timestamp and draws; update() runs from the
\* next frame on (line 598).
LoopStart ==
  /\ loop = "start"
  /\ lastTime' = 0
  /\ loop' = "update"
  /\ log' = EmptyLog("loopStart")
  /\ UNCHANGED <<player, keys, projectiles, particles, enemies, islands, frameCount,
                 score, gameOver, gameStarted, message, loadingMessage, seen, timers,
                 fetches, session>>

\* A respawn timer of line 397 or 398 fires: spawnEnemy().
SpawnTimer ==
  /\ timers > 0
  /\ \E pt \in (IF SpawnRejected(enemies) THEN {<<0, 0>>} ELSE SpawnPlaces(player)) :
     \E r \in SpawnRotations :
       LET st == spawnEnemy([player |-> player, enemies |-> enemies, spawns |-> <<>>],
                            pt, r)
       IN /\ enemies' = st.enemies
          /\ log' = [EmptyLog("spawnTimer") EXCEPT !.spawns = st.spawns]
  /\ timers' = timers - 1
  /\ UNCHANGED <<player, keys, projectiles, particles, islands, frameCount, score,
                 gameOver, gameStarted, message, loadingMessage, seen, fetches,
                 lastTime, loop, session>>

\* generatePirateEvent(eventName, context), gemini.ts lines 9-29: the
\* response is a thrown error, an empty text or a text.
Responses == {[throws |-> TRUE, text |-> ""], [throws |-> FALSE, text |-> ""],
              [throws |-> FALSE, text |-> "Arrr! The elves of Palm Island traded yer socks for a golden coconut!"]}

\* A fetch that hands on whatever text the response carries.
generateNoFallback(response) == response.text

generatePirateEvent(response) ==
  IF response.throws THEN FALLBACK_ERROR
  ELSE IF response.text # "" THEN response.text ELSE FALLBACK_EMPTY

\* The continuation of deliverPresent after its await, lines 995-997.
FetchDone ==
  \E f \in fetches, response \in Responses :
    /\ fetches' = fetches \ {f}
    /\ loadingMessage' = FALSE
    /\ message' = generatePirateEvent(response)
    /\ log' = [EmptyLog("fetchDone") EXCEPT !.completed = <<f>>,
                                            !.response = <<response>>]
    /\ UNCHANGED <<player, keys, projectiles, particles, enemies, islands, frameCount,
                   score, gameOver, gameStarted, seen, timers, lastTime, loop, session>>

\* The record the frame works on: the stores and setters' targets, the
\* frame's inputs and the closure's values.
World(dt, rnd, pp) ==
  [player |-> player, keys |-> keys, projectiles |-> projectiles,
   particles |-> particles, enemies |-> enemies, islands |-> islands,
   score |-> score, gameOver |-> gameOver, loadingMessage |-> loadingMessage,
   timers |-> timers, fetches |-> fetches, session |-> session,
   dt |-> dt, rnd |-> rnd, pp |-> pp, ep |-> <<>>, c |-> seen,
   broadsides |-> <<>>, chasers |-> <<>>, hits |-> <<>>, deliveries |-> <<>>,
   outOfBounds |-> 0, expired |-> 0]

\* The poses of the frame's enemies: moves for those the motion model
\* moves, unused for the others.
WithPoses(w, moves) ==
  [w EXCEPT !.ep = [i \in 1..Len(w.enemies) |->
                      IF i \in DOMAIN moves THEN moves[i]
                      ELSE Pose(0, 0, <<0, 0>>, 0)]]

\* const dt = Math.min((time - s.lastTime) / 16.67, 2), line 280, in whole
\* nominal frames (rounded down).
dtOf(time, last) == Min((time - last) \div FramePeriod, MaxDt)

\* One animation frame: update(t), lines 278-440, run by the effect's loop
\* (line 598) once the game has started.  Its timestamp becomes lastTime
\* (line 281).
Frame ==
  /\ seen.gameStarted
  /\ loop = "update"
  /\ frameCount < MaxFrames
  /\ \E time \in ElapsedSet, rnd \in RandomSet, pp \in PlayerPoses :
     \E dt \in {dtOf(time, lastTime)} :
     \E w1 \in {PlayerPhase(GameOverCheck(World(dt, rnd, pp)))} :
     \E moves \in {m \in [Movers(w1) -> EnemyPoses \cup EdgePoses] :
                      \A i \in Movers(w1) : m[i] \in EnemyPosesFrom(w1.enemies[i])} :
     \E w \in {updateRest(WithPoses(w1, moves))} :
       /\ player' = w.player
       /\ projectiles' = w.projectiles
       /\ particles' = w.particles
       /\ enemies' = w.enemies
       /\ islands' = w.islands
       /\ score' = w.score
       /\ gameOver' = w.gameOver
       /\ loadingMessage' = w.loadingMessage
       /\ timers' = w.timers
       /\ fetches' = w.fetches
       /\ frameCount' = frameCount + 1
       /\ lastTime' = 0
       /\ log' = [op |-> "frame", paused |-> seen.message # NULL, dt |-> dt,
                  broadsides |-> w.broadsides, chasers |-> w.chasers,
                  hits |-> w.hits, deliveries |-> w.deliveries,
                  outOfBounds |-> w.outOfBounds, spawns |-> <<>>,
                  completed |-> <<>>, response |-> <<>>, expired |-> w.expired]
       /\ UNCHANGED <<keys, gameStarted, message, seen, loop, session>>

\* The steps of a first session.  TRY AGAIN is not among them: the game-over
\* screen needs 13 hits on the player, more than MaxFrames frames deliver.
Next ==
  \/ SetSail
  \/ Dismiss
  \/ KeyDown
  \/ KeyUp
  \/ Render
  \/ LoopStart
  \/ SpawnTimer
  \/ FetchDone
  \/ Frame

Spec == Init /\ [][Next]_vars

(***************************************************************************)
(* A session in progress.  The state below is one the program reaches from *)
(* Init by play: the player has sunk six pirates (the three of initGame    *)
(* and three respawned ones, 3 hits each), whose records stay in the store *)
(* (nothing removes them, lines 131-158 and 386-400), six respawn timers   *)
(* have fired and filled the store to 9 records, and one timer of the last *)
(* kill (line 398) is still pending; the three pirates afloat have closed  *)
(* in on the player and hit it 12 times (100 - 12 * 8 = 4); the player has *)
(* just delivered island 3, whose narrative is being fetched, and the      *)
(* loading state is on screen.                                             *)
(* The cannons of the player and of the last pirate are 2 frames short of  *)
(* ready.                                                                  *)
(* No projectile is in flight, and of the particles of the fight two are   *)
(* left beside the glints: a fire particle and a smoke particle of the     *)
(* explosions on the player (lines 623-649), close to the end of their     *)
(* lives.  frameCount counts the frames from this state on.                *)
(***************************************************************************)
LateParticles ==
  AddCopies(AddCopies(AddCopies(EmptyBag, Glint, NumGlints),
                      [type |-> "fire", color |-> "#f97316", life |-> 3], 1),
            [type |-> "smoke", color |-> "rgba(100,100,100,0.5)", life |-> 4], 1)

SunkEnemy ==
  [NewEnemy(<<3000, 2000>>, 2) EXCEPT !.active = FALSE,
                                      !.health = EnemyHealth - 3 * EnemyHitDamage]

LateEnemies ==
  [i \in 1..9 |-> IF i <= 6 THEN SunkEnemy
                  ELSE [NewEnemy(<<1050, 3000>>, 2)
                          EXCEPT !.cooldown = IF i = 9 THEN 2 ELSE 0]]

InitLate ==
  /\ player = [x |-> 1000, y |-> 3000, radius |-> ShipRadius,
               rotation |-> -1, active |-> TRUE, velocity |-> <<0, 0>>,
               angularVelocity |-> 0, health |-> PlayerHealth - 12 * PlayerHitDamage,
               maxHealth |-> PlayerHealth, cooldown |-> 2]
  /\ keys = [w |-> FALSE, a |-> FALSE, s |-> FALSE, d |-> FALSE, space |-> FALSE]
  /\ projectiles = <<>>
  /\ particles = LateParticles
  /\ enemies = LateEnemies
  /\ islands = [NewIslands EXCEPT ![3].delivered = TRUE]
  /\ frameCount = 0
  /\ score = 6 * KillBounty + DeliveryBounty
  /\ gameOver = FALSE
  /\ gameStarted = TRUE
  /\ message = NULL
  /\ loadingMessage = TRUE
  /\ seen = [message |-> NULL, loadingMessage |-> TRUE, gameOver |-> FALSE,
             gameStarted |-> TRUE]
  /\ timers = 1
  /\ fetches = {[session |-> 1, island |-> 3]}
  /\ lastTime = 0
  /\ loop = "update"
  /\ session = 1
  /\ log = EmptyLog("init")

\* The steps of a session in progress: SET SAIL is no longer on screen.
NextLate ==
  \/ TryAgain
  \/ Dismiss
  \/ KeyDown
  \/ KeyUp
  \/ Render
  \/ LoopStart
  \/ SpawnTimer
  \/ FetchDone
  \/ Frame

SpecLate == InitLate /\ [][NextLate]_vars

(***************************************************************************)
(* The motion model on its own: calls of applyShipPhysics on the player's  *)
(* ship with every combination of its inputs (thrust, turnLeft, turnRight, *)
(* dt), one after the other, from the ship the component is constructed    *)
(* with.                                                                   *)
(***************************************************************************)
Steer ==
  /\ \E thrust \in BOOLEAN, turnLeft \in BOOLEAN, turnRight \in BOOLEAN,
        dt \in DtSet, pose \in PlayerPoses :
       player' = applyShipPhysics(player, thrust, turnLeft, turnRight, pose, dt)
  /\ log' = EmptyLog("steer")
  /\ UNCHANGED <<keys, projectiles, particles, enemies, islands, frameCount, score,
                 gameOver, gameStarted, message, loadingMessage, seen, timers, fetches,
                 lastTime, loop, session>>

NextMotion == Steer

SpecMotion == Init /\ [][NextMotion]_vars

(***************************************************************************)
(* The keel drag on its own: calls applyShipPhysics(ship, false, false,    *)
(* false, dt) on a ship drifting slowly, whatever its heading once the     *)
(* angular part has turned it.  At these speeds the position, a whole      *)
(* number of units, stays where it is.                                     *)
(***************************************************************************)
InitKeel ==
  /\ \E vx \in (0 - MaxSlow)..MaxSlow, vy \in (0 - MaxSlow)..MaxSlow :
       player = [x |-> WORLD_SIZE \div 2, y |-> WORLD_SIZE \div 2, radius |-> ShipRadius,
                 rotation |-> 0, active |-> TRUE, velocity |-> <<vx, vy>>,
                 angularVelocity |-> 0, health |-> PlayerHealth,
                 maxHealth |-> PlayerHealth, cooldown |-> 0]
  /\ keys = [w |-> FALSE, a |-> FALSE, s |-> FALSE, d |-> FALSE, space |-> FALSE]
  /\ projectiles = <<>>
  /\ particles = EmptyBag
  /\ enemies = <<>>
  /\ islands = <<>>
  /\ frameCount = 0
  /\ score = 0
  /\ gameOver = FALSE
  /\ gameStarted = FALSE
  /\ message = NULL
  /\ loadingMessage = FALSE
  /\ seen = [message |-> NULL, loadingMessage |-> FALSE, gameOver |-> FALSE,
             gameStarted |-> FALSE]
  /\ timers = 0
  /\ fetches = {}
  /\ lastTime = 0
  /\ loop = "none"
  /\ session = 0
  /\ log = EmptyLog("init")

Coast ==
  /\ \E h \in Headings, dt \in CoastDts :
       player' = [player EXCEPT !.velocity = coast(@, h, dt)]
  /\ log' = EmptyLog("coast")
  /\ UNCHANGED <<keys, projectiles, particles, enemies, islands, frameCount, score,
                 gameOver, gameStarted, message, loadingMessage, seen, timers, fetches,
                 lastTime, loop, session>>

NextKeel == Coast

SpecKeel == InitKeel /\ [][NextKeel]_vars

(***************************************************************************)
(* A chase along the world's upper border.  The state below is one the     *)
(* program reaches from Init by play: the player has sailed north from the *)
(* world centre until the clamp of lines 299-300 held it at y = 0 and has  *)
(* come to rest there; the first pirate has followed it under thrust, bow  *)
(* at the player, has stopped thrusting 250 units short of it (line 329)   *)
(* and glides on at 12 units a frame, now 10 units from the border, its    *)
(* cannons fired 50 frames ago; the two others have not moved yet.         *)
(* frameCount counts the frames from this state on.                        *)
(***************************************************************************)
EdgeEnemies ==
  [i \in 1..InitialEnemies |->
     IF i = 1
     THEN [NewEnemy(<<2000, 10>>, 3) EXCEPT !.velocity = <<0, -1200>>,
                                            !.cooldown = ENEMY_COOLDOWN - 50]
     ELSE NewEnemy(<<3000, 2000>>, 2)]

InitEdge ==
  /\ player = [x |-> WORLD_SIZE \div 2, y |-> 0, radius |-> ShipRadius,
               rotation |-> -1, active |-> TRUE, velocity |-> <<0, 0>>,
               angularVelocity |-> 0, health |-> PlayerHealth,
               maxHealth |-> PlayerHealth, cooldown |-> 0]
  /\ keys = [w |-> FALSE, a |-> FALSE, s |-> FALSE, d |-> FALSE, space |-> FALSE]
  /\ projectiles = <<>>
  /\ particles = AddCopies(EmptyBag, Glint, NumGlints)
  /\ enemies = EdgeEnemies
  /\ islands = NewIslands
  /\ frameCount = 0
  /\ score = 0
  /\ gameOver = FALSE
  /\ gameStarted = TRUE
  /\ message = NULL
  /\ loadingMessage = FALSE
  /\ seen = [message |-> NULL, loadingMessage |-> FALSE, gameOver |-> FALSE,
             gameStarted |-> TRUE]
  /\ timers = 0
  /\ fetches = {}
  /\ lastTime = 0
  /\ loop = "update"
  /\ session = 1
  /\ log = EmptyLog("init")

\* The steps of the chase: neither SET SAIL nor TRY AGAIN is on screen.
NextEdge ==
  \/ Dismiss
  \/ KeyDown
  \/ KeyUp
  \/ Render
  \/ LoopStart
  \/ SpawnTimer
  \/ FetchDone
  \/ Frame

SpecEdge == InitEdge /\ [][NextEdge]_vars

(***************************************************************************)
(* The claims                                                              *)
(***************************************************************************)
Ships == {player} \cup {enemies[i] : i \in 1..Len(enemies)}

\* C1: in every reachable state every ship (the player and every enemy)
\* has 0 <= health <= maxHealth: no hit leaves a ship with negative health.
HealthInRange == \A ship \in Ships : 0 <= ship.health /\ ship.health <= ship.maxHealth

\* C2: after a session reset, the completion of a fetch started in an
\* earlier session changes neither the message nor the loading state.
StaleFetchDiscarded ==
  [][\A f \in fetches \ fetches' :
       f.session # session => (message' = message /\ loadingMessage' = loadingMessage)]_vars

\* C3: a frame executed while a message is displayed leaves the projectile
\* store, the player and every enemy (position, rotation, velocity, angular
\* velocity, cooldown, health, active flag) as they were.
PausedFrameFreezes ==
  [][(frameCount' = frameCount + 1 /\ seen.message # NULL)
       => (projectiles' = projectiles /\ player' = player /\ enemies' = enemies)]_vars

\* A paused frame has run with projectiles in flight, enemies afloat and the
\* thrust and fire keys held down.
PausedFrameRan ==
  /\ log.op = "frame" /\ log.paused
  /\ Len(projectiles) > 0
  /\ keys.w /\ keys.space
  /\ \E i \in 1..Len(enemies) : enemies[i].active

\* The enemies sunk by the hits of a frame's log.
Kills(hits) ==
  Cardinality({k \in 1..Len(hits) :
                 hits[k].target = "enemy" /\ hits[k].wasActive /\ ~hits[k].active})

\* The undelivered islands the player lies on.
Reachable(p, isl) ==
  {i \in 1..Len(isl) :
     /\ ~isl[i].delivered
     /\ DistLess(p.x, p.y, isl[i].x, isl[i].y, isl[i].radius + p.radius)}

DeliveredOnce ==
  [][session' = session =>
       /\ Len(islands') = Len(islands)
       /\ \A i \in 1..Len(islands) : islands[i].delivered => islands'[i].delivered
       /\ frameCount' = frameCount + 1 =>
            /\ \A k \in 1..Len(log'.deliveries) :
                 /\ ~islands[log'.deliveries[k]].delivered
                 /\ \A m \in 1..Len(log'.deliveries) :
                      log'.deliveries[m] = log'.deliveries[k] => m = k
            /\ score' = score + DeliveryBounty * Len(log'.deliveries)
                          + KillBounty * Kills(log'.hits)
            /\ fetches' = fetches \cup {[session |-> session, island |-> log'.deliveries[k]] :
                                          k \in 1..Len(log'.deliveries)}]_vars

\* A frame has run its delivery check, with no gate closed and no fetch
\* pending, while the player lay on an island delivered earlier.
OverlapsDelivered ==
  /\ log.op = "frame" /\ seen.message = NULL /\ ~seen.loadingMessage
  /\ message = NULL /\ ~loadingMessage /\ fetches = {}
  /\ player.active
  /\ \E i \in 1..Len(islands) :
       /\ islands[i].delivered
       /\ \A k \in 1..Len(log.deliveries) : log.deliveries[k] # i
       /\ DistLess(player.x, player.y, islands[i].x, islands[i].y,
                   islands[i].radius + player.radius)

\* C6: a spawn request is rejected only if the number of active enemies
\* exceeds the cap of 8; otherwise it appends exactly one enemy, active,
\* with health = maxHealth = 40 and zero velocity.
SpawnCappedByActive ==
  \A k \in 1..Len(log.spawns) :
    LET e == log.spawns[k]
    IN /\ Len(e.added) = 0 => e.active > EnemyCap
       /\ e.active <= EnemyCap =>
            /\ Len(e.added) = 1
            /\ e.added[1].active
            /\ e.added[1].health = EnemyHealth /\ e.added[1].maxHealth = EnemyHealth
            /\ e.added[1].velocity = <<0, 0>>

\* C7: every enemy a spawn request creates lies at least 1000 from where
\* the player is when the request runs.
SpawnFarFromPlayer ==
  \A k \in 1..Len(log.spawns) :
    \A n \in 1..Len(log.spawns[k].added) :
      ~DistLess(log.spawns[k].added[n].x, log.spawns[k].added[n].y,
                log.spawns[k].px, log.spawns[k].py, MinSpawnDist)

\* A respawn timer has fired and created an enemy while the player was away
\* from the world centre.
RespawnedAwayFromCentre ==
  /\ log.op = "spawnTimer"
  /\ Len(log.spawns) = 1 /\ Len(log.spawns[1].added) = 1
  /\ log.spawns[1].px # WORLD_SIZE \div 2

\* C8: a player projectile that hits an active enemy of health at most 15
\* sinks it in that frame: the enemy is inactive, the projectile is removed,
\* 40 red explosion particles are added, the score grows by 150 and one or
\* two respawn timers are scheduled.
KillEffects ==
  \A k \in 1..Len(log.hits) :
    LET h == log.hits[k]
    IN (h.target = "enemy" /\ h.owner = "player" /\ h.wasActive /\ h.before <= 15)
         => /\ ~h.active
            /\ h.removed = 1
            /\ h.red = 40
            /\ h.score = KillBounty
            /\ h.timers \in {1, 2}

\* A player projectile has hit an active enemy of health at most 15.
KillHappened ==
  \E k \in 1..Len(log.hits) :
    /\ log.hits[k].target = "enemy" /\ log.hits[k].owner = "player"
    /\ log.hits[k].wasActive /\ log.hits[k].before <= 15

\* C9: an enemy is active exactly while the damage it has taken is below
\* its starting health of 40: it has taken 0, 1, 2 or 3 hits of 15, is
\* active after 0, 1 and 2 and inactive after 3; only active enemies are
\* hit, each hit taking 15.
ActiveWhileDamageBelowHealth ==
  /\ \A i \in 1..Len(enemies) :
       LET damage == enemies[i].maxHealth - enemies[i].health
       IN /\ enemies[i].maxHealth = EnemyHealth
          /\ damage \in {0, EnemyHitDamage, 2 * EnemyHitDamage, 3 * EnemyHitDamage}
          /\ enemies[i].active <=> damage < enemies[i].maxHealth
  /\ \A k \in 1..Len(log.hits) :
       log.hits[k].target = "enemy" =>
         /\ log.hits[k].wasActive
         /\ log.hits[k].after = log.hits[k].before - EnemyHitDamage
         /\ log.hits[k].active <=> log.hits[k].after > 0

\* An enemy hit twice in an earlier frame has taken its third hit, alone,
\* in this frame, while another enemy is afloat at the same place.
ThirdHitSinks ==
  /\ Len(log.hits) = 1
  /\ log.hits[1].target = "enemy" /\ log.hits[1].before = EnemyHealth - 2 * EnemyHitDamage
  /\ ~enemies[log.hits[1].index].active
  /\ \E i \in 1..Len(enemies) :
       /\ enemies[i].active
       /\ enemies[i].x = enemies[log.hits[1].index].x
       /\ enemies[i].y = enemies[log.hits[1].index].y

\* C10: each player broadside adds 6 projectiles, all owned by the player,
\* 3 flying to port and 3 to starboard at CANNON_SPEED, 6 muzzle particles
\* and 6 smoke particles, and leaves the cooldown at CANNON_COOLDOWN.
BroadsideEffects ==
  \A k \in 1..Len(log.broadsides) :
    LET b == log.broadsides[k]
        flying(side) == {n \in 1..Len(b.velocities) :
                           b.velocities[n] = <<cosQ(b.rotation + side) * CANNON_SPEED,
                                               sinQ(b.rotation + side) * CANNON_SPEED>>}
    IN /\ b.projectiles = 6
       /\ b.owners = {"player"}
       /\ Cardinality(flying(-1)) = 3 /\ Cardinality(flying(1)) = 3
       /\ b.muzzle = 6
       /\ b.smoke = 6
       /\ b.cooldown = CANNON_COOLDOWN

\* The player has fired a broadside in a frame in which it also moved and
\* left a wake.
BroadsideFired ==
  /\ Len(log.broadsides) = 1
  /\ log.broadsides[1].projectiles > 0
  /\ keys.w

\* The projectiles the volleys of a frame's log added to the store.
Fired(volleys) ==
  LET RECURSIVE sum(_)
      sum(k) == IF k = 0 THEN 0 ELSE volleys[k].projectiles + sum(k - 1)
  IN sum(Len(volleys))

\* The hits of a frame's log on one target.
HitsOn(hits, target, index) ==
  Cardinality({k \in 1..Len(hits) : hits[k].target = target /\ hits[k].index = index})

\* C11: a projectile only damages ships of the opposing role, and leaves
\* the store only out of bounds or on its first hit.  Within a session,
\* every hit of an enemy-owned projectile is on the player and every hit of
\* a player-owned projectile is on an enemy; the player's health drops by 8
\* for each hit on it and by nothing else, every enemy's health by 15 for
\* each hit on it and by nothing else, and a ship's active flag changes only
\* with such a hit; every hit removes exactly its projectile, and the store
\* after a frame holds what it held, plus the frame's shots, minus the
\* projectiles out of bounds and the hits; no other step changes the store.
OpposingRoleOnly ==
  [][session' = session =>
       IF frameCount' = frameCount + 1
       THEN /\ \A k \in 1..Len(log'.hits) :
                 /\ log'.hits[k].owner = "enemy" => log'.hits[k].target = "player"
                 /\ log'.hits[k].owner = "player" => log'.hits[k].target = "enemy"
                 /\ log'.hits[k].removed = 1
            /\ player'.health
                 = player.health - PlayerHitDamage * HitsOn(log'.hits, "player", 0)
            /\ player'.active # player.active => HitsOn(log'.hits, "player", 0) > 0
            /\ Len(enemies') = Len(enemies)
            /\ \A j \in 1..Len(enemies) :
                 /\ enemies'[j].health
                      = enemies[j].health - EnemyHitDamage * HitsOn(log'.hits, "enemy", j)
                 /\ enemies'[j].active # enemies[j].active
                      => HitsOn(log'.hits, "enemy", j) > 0
            /\ Len(projectiles')
                 = Len(projectiles) + Fired(log'.broadsides) + Fired(log'.chasers)
                     - log'.outOfBounds - Len(log'.hits)
       ELSE projectiles' = projectiles]_vars

\* A frame has left a projectile of the player inside the collision circle
\* of the active player, and a projectile of an enemy has hit the player.
OwnShotInsideHull ==
  /\ log.op = "frame"
  /\ player.active
  /\ \E k \in 1..Len(projectiles) :
       projectiles[k].owner = "player" /\ checkCollision(projectiles[k], player)
  /\ HitsOn(log.hits, "player", 0) > 0

\* The projectiles of one owner in a store.
OwnedBy(projs, owner) == Cardinality({k \in 1..Len(projs) : projs[k].owner = owner})

\* C12: game over is terminal until reset.  While the player is inactive
\* and no initGame runs, every step leaves the player (position, velocity,
\* rotation, health, cooldown, active flag) as it is, and every frame sets
\* the game-over state, fires no broadside, adds no projectile of the
\* player to the store and delivers nothing.
GameOverTerminal ==
  [][(~player.active /\ session' = session) =>
       /\ player' = player
       /\ frameCount' = frameCount + 1 =>
            /\ gameOver'
            /\ log'.broadsides = <<>>
            /\ OwnedBy(projectiles', "player") <= OwnedBy(projectiles, "player")
            /\ log'.deliveries = <<>>
            /\ islands' = islands]_vars

\* A frame has run on a sunk player, with no message displayed, the thrust
\* and fire keys held down and the cannons ready.
GameOverFrameRan ==
  /\ log.op = "frame" /\ ~log.paused
  /\ ~player.active /\ gameOver
  /\ log.hits = <<>>
  /\ keys.w /\ keys.space /\ player.cooldown <= 0

\* C13: the narrative fetch never propagates a failure.  Whatever the
\* outcome of the external call, the completion of a fetch ends the loading
\* state and sets a message that is a non-empty string: the response's text
\* if it has one, the fixed fallback of the empty response if the text is
\* empty, the fixed fallback of the error if the call threw.  A loading
\* state is never left without a pending fetch to end it.
NarrativeAlwaysArrives ==
  [][/\ \A f \in fetches \ fetches' :
          /\ ~loadingMessage'
          /\ message' # NULL /\ message' # ""
          /\ \A r \in Responses : log'.response = <<r>> =>
                message' = IF r.throws THEN FALLBACK_ERROR
                           ELSE IF r.text = "" THEN FALLBACK_EMPTY ELSE r.text
     /\ loadingMessage' => fetches' # {}]_vars

\* A fetch whose external call threw has completed: the loading state has
\* ended and the fallback is the message.
FailedFetchCompleted ==
  /\ log.op = "fetchDone"
  /\ \E r \in Responses : r.throws /\ log.response = <<r>>
  /\ message = FALLBACK_ERROR /\ ~loadingMessage

\* C14: whatever the state before, initGame leaves an empty projectile
\* store, a particle store holding only the glints, 12 islands none of them
\* delivered, 3 enemies all active at full health, the player active at
\* health 100 with zero velocity at the world centre, score 0, the game-over
\* state cleared, and the gate state reset: no loading state and no message
\* of the previous session.
InitSessionResetsAll ==
  [][session' # session =>
       /\ projectiles' = <<>>
       /\ particles' = AddCopies(EmptyBag, Glint, NumGlints)
       /\ Len(islands') = NumIslands
       /\ \A i \in 1..Len(islands') : ~islands'[i].delivered
       /\ Len(enemies') = InitialEnemies
       /\ \A i \in 1..Len(enemies') :
            enemies'[i].active /\ enemies'[i].health = enemies'[i].maxHealth
       /\ player'.active /\ player'.health = PlayerHealth
       /\ player'.velocity = <<0, 0>>
       /\ player'.x = WORLD_SIZE \div 2 /\ player'.y = WORLD_SIZE \div 2
       /\ score' = 0
       /\ ~gameOver'
       /\ message' = WELCOME
       /\ ~loadingMessage']_vars

\* The projectiles a frame spawned, where they were spawned: the broadside
\* of the player p and the chasers of the enemies es the log names (p and es
\* as the frame left them: no phase after the shot moves the ship).
Muzzles(p, es, l) ==
  LET empty == [player |-> p, projectiles |-> <<>>, particles |-> EmptyBag]
      shots(ps) == {ps[k] : k \in 1..Len(ps)}
  IN (IF l.broadsides = <<>> THEN {}
      ELSE shots(fireBroadside(empty, "player").projectiles))
     \cup UNION {shots(fireChasers(empty, es[l.chasers[k].enemy], "enemy").projectiles) :
                   k \in 1..Len(l.chasers)}

\* The lives particles are created with, lines 244-269, 623-649, 724-752
\* and 349-354.
FreshLives == {30, 60, 40, 80} \cup {randomRange(50, 100, r) : r \in RandomSet}
                \cup {randomRange(100, 200, r) : r \in RandomSet}

\* C15: the phases of a frame run in the order player, enemies,
\* projectiles, delivery, particles, and every entity is advanced at most
\* once.  In a frame with no message displayed: every enemy decides on the
\* player's position after the player phase; every projectile in the store
\* after the frame lies exactly one step of velocity * dt from where it was
\* before the frame or from the muzzle that fired it in this frame, and the
\* store holds all of them but those out of bounds and the hits (none is
\* skipped); a player sunk in the projectile phase delivers nothing.  In
\* every frame, every particle that is not a glint has aged by exactly
\* 0.02 * dt, from its life before the frame or from the life it was
\* created with in this frame.
PhasesInOrderOncePerEntity ==
  [][frameCount' = frameCount + 1 =>
       /\ seen.message = NULL =>
            /\ \A k \in 1..Len(log'.chasers) :
                 LET d == decide(enemies[log'.chasers[k].enemy], player')
                 IN d.inRange /\ d.aligned
            /\ \A i \in 1..Len(enemies) :
                 LET d == decide(enemies[i], player')
                 IN (enemies[i].active /\ d.inRange /\ d.aligned
                       /\ enemies[i].cooldown - log'.dt <= 0)
                      => \E k \in 1..Len(log'.chasers) : log'.chasers[k].enemy = i
            /\ \A k \in 1..Len(projectiles') :
                 LET q == projectiles'[k]
                 IN [q EXCEPT !.x = @ - q.vx * log'.dt, !.y = @ - q.vy * log'.dt]
                      \in {projectiles[j] : j \in 1..Len(projectiles)}
                            \cup Muzzles(player', enemies', log')
            /\ Len(projectiles') + log'.outOfBounds + Len(log'.hits)
                 = Len(projectiles) + Fired(log'.broadsides) + Fired(log'.chasers)
            /\ ~player'.active => log'.deliveries = <<>>
       /\ \A q \in BagToSet(particles') :
            q.type # "glint" =>
              \/ [q EXCEPT !.life = @ + 2 * log'.dt] \in BagToSet(particles)
              \/ q.life + 2 * log'.dt \in FreshLives]_vars

\* A frame with no message displayed in which the player and an enemy have
\* fired, a projectile has been removed on a hit in the middle of the loop
\* and others fly on.
ShotsAndHitsInOneFrame ==
  /\ log.op = "frame" /\ ~log.paused
  /\ log.broadsides # <<>> /\ log.chasers # <<>>
  /\ log.hits # <<>>
  /\ Len(projectiles) > 1

\* C16: every mutation of the entity stores (player, enemies, projectiles,
\* particles, islands) happens inside the per-frame update step or the
\* session initialisation: a step that is neither a frame nor initGame (a
\* timer callback, the completion of a fetch, a render, a key or button
\* handler) leaves all five stores as they are.
StoresChangeOnlyInFrames ==
  [][(frameCount' = frameCount /\ session' = session)
       => UNCHANGED <<player, enemies, projectiles, particles, islands>>]_vars

\* C17: in a frame executed while a message is displayed, every particle
\* that is not a glint is frozen: none is removed and none changes its life
\* (the particle store holds the same non-glint particles with the same
\* lives after the frame as before).
PausedFrameFreezesParticles ==
  [][(frameCount' = frameCount + 1 /\ seen.message # NULL)
       => \A q \in BagToSet(particles) \cup BagToSet(particles') :
            q.type # "glint" => CopiesIn(q, particles') = CopiesIn(q, particles)]_vars

\* C18: the particle phase removes a particle iff it is not a glint and
\* its life after this frame's decay is <= 0.  In every frame, a particle
\* that is not a glint and whose life after the decay of 0.02 * dt is
\* positive is still in the store with that life, one whose life after the
\* decay is <= 0 is gone, and every particle left that is not a glint has a
\* positive life; within a session no step changes the number of glints,
\* which is the number initGame created.
ParticleRemovedIffExpired ==
  [][/\ frameCount' = frameCount + 1 =>
          /\ \A q \in BagToSet(particles) :
               q.type # "glint" =>
                 IF q.life - 2 * log'.dt > 0
                 THEN CopiesIn([q EXCEPT !.life = @ - 2 * log'.dt], particles')
                        >= CopiesIn(q, particles)
                 ELSE ~BagIn([q EXCEPT !.life = @ - 2 * log'.dt], particles')
          /\ \A q \in BagToSet(particles') : q.type # "glint" => q.life > 0
     /\ session' = session => CountType(particles', "glint") = CountType(particles, "glint")
     /\ session' > 0 => CountType(particles', "glint") = NumGlints]_vars

\* A frame has removed particles whose life reached 0 or less (one of them
\* exactly 0) and left others, glints and particles with life to spare.
ParticlesExpired ==
  /\ log.op = "frame" /\ log.dt = 2 /\ frameCount = 1
  /\ log.expired >= 2
  /\ \E q \in BagToSet(particles) : q.type # "glint"
  /\ CountType(particles, "glint") = NumGlints

\* C19: after any call to the motion model, for any inputs, any dt and any
\* history of calls, the ship's angular velocity lies in
\* [-MAX_ANGULAR_VELOCITY, MAX_ANGULAR_VELOCITY].
AngularVelocityClamped ==
  \A ship \in Ships :
    /\ 0 - MAX_ANGULAR_VELOCITY <= ship.angularVelocity
    /\ ship.angularVelocity <= MAX_ANGULAR_VELOCITY

\* A call of the motion model has left the ship turning at the maximum
\* rate: torque and drag would have taken it beyond.
TurningAtMaximum ==
  /\ log.op = "steer"
  /\ player.angularVelocity = MAX_ANGULAR_VELOCITY
  /\ angularDrag(torque(player.angularVelocity, FALSE, TRUE, 1), 1)
       > MAX_ANGULAR_VELOCITY

\* C20: for every frame, the normalised elapsed time dt passed to the
\* simulation satisfies 0 <= dt <= 2, whatever the real time elapsed between
\* two successive invocations (a stall, a session reset, a restart of the
\* frame loop).
DtInRange == log.op = "frame" => (0 <= log.dt /\ log.dt <= MaxDt)

\* The first frame of a session has run after a stall: initGame had left
\* its performance.now() in lastTime, the restarted loop has stamped it, and
\* the elapsed time was cut to the cap.
FrameAfterStall ==
  /\ log.op = "frame" /\ frameCount = 1 /\ session = 1
  /\ log.dt = MaxDt
  /\ dtOf(FramePeriod, 2000) < 0

\* The square of a speed.
Speed2(v) == v[1] * v[1] + v[2] * v[2]

\* C21: a call to the motion model with thrust, turnLeft and turnRight all
\* false never increases the ship's speed, whatever its heading and dt >= 0.
\* For the ship's velocity, every heading and every dt, the exact speed
\* after the keel drag is at most the speed before, and below it if the
\* ship moves and dt > 0; the velocity the ship keeps after a call is no
\* faster than the one it had, so that repeated calls never speed it up.
DragNeverSpeedsUp ==
  [][/\ \A h \in Headings, dt \in CoastDts :
          /\ Speed2(keelDrag(player.velocity, h, dt))
               <= Speed2(player.velocity) * keelScale(h, dt) * keelScale(h, dt)
          /\ (dt > 0 /\ player.velocity # <<0, 0>>)
               => Speed2(keelDrag(player.velocity, h, dt))
                    < Speed2(player.velocity) * keelScale(h, dt) * keelScale(h, dt)
     /\ log'.op = "coast" => Speed2(player'.velocity) <= Speed2(player.velocity)]_vars

\* A call has slowed down a ship that drifted at full MaxSlow on both axes
\* with the wind abeam, and the ship still moves.
CoastedSlower ==
  /\ log.op = "coast"
  /\ player.velocity # <<0, 0>>
  /\ Speed2(player.velocity) < 2 * MaxSlow * MaxSlow
  /\ Speed2(player.velocity) > MaxSlow * MaxSlow

\* C22: a player projectile damages at most one enemy over its lifetime.
\* Every hit of a frame on an enemy is on the first enemy in store order
\* that is active and overlaps the projectile, whatever other enemies the
\* projectile overlaps; it takes 15 of that enemy's health and removes the
\* projectile from the store in that frame; an inactive enemy is never the
\* target; and the health the enemies lose in a frame is 15 for each hit.
FirstActiveEnemyHitOnce ==
  [][frameCount' = frameCount + 1 =>
       /\ \A k \in 1..Len(log'.hits) :
            LET h == log'.hits[k]
            IN h.target = "enemy" =>
                 /\ h.index \in h.overlapped \cap h.afloat
                 /\ \A j \in h.overlapped \cap h.afloat : h.index <= j
                 /\ h.wasActive
                 /\ h.after = h.before - EnemyHitDamage
                 /\ h.removed = 1
       /\ \A j \in 1..Len(enemies) :
            enemies[j].health - enemies'[j].health
              = EnemyHitDamage * HitsOn(log'.hits, "enemy", j)
       /\ Len(projectiles') + log'.outOfBounds + Len(log'.hits)
            = Len(projectiles) + Fired(log'.broadsides) + Fired(log'.chasers)]_vars

\* A projectile of the player has hit while it overlapped several active
\* enemies, with inactive enemies ahead of them in the store.
HitAmongSeveral ==
  /\ log.op = "frame"
  /\ \E k \in 1..Len(log.hits) :
       /\ log.hits[k].target = "enemy"
       /\ Cardinality(log.hits[k].overlapped \cap log.hits[k].afloat) > 1
       /\ \E j \in 1..Len(enemies) : j < log.hits[k].index /\ ~enemies[j].active

\* C23: an enemy fires its chasers in a frame only if it is active, no
\* message is displayed, its distance to the player is under 500, its
\* cooldown has elapsed and the angular difference to the player's bearing
\* is under 0.3 rad; each firing adds exactly 2 projectiles, owned by the
\* enemy side, and leaves the enemy's cooldown at ENEMY_COOLDOWN; an enemy
\* fires at most once in a frame, and the projectiles of the enemy side in
\* the store grow by no more than 2 for each firing.
ChasersOnlyWhenAimed ==
  [][frameCount' = frameCount + 1 =>
       /\ \A k \in 1..Len(log'.chasers) :
            LET i == log'.chasers[k].enemy
                d == decide(enemies[i], player')
            IN /\ enemies[i].active
               /\ seen.message = NULL
               /\ d.inRange
               /\ DistLess(player'.x, player'.y, enemies[i].x, enemies[i].y, 500)
               /\ d.aligned
               /\ enemies[i].cooldown <= 0 \/ enemies[i].cooldown - log'.dt <= 0
               /\ log'.chasers[k].projectiles = 2
               /\ log'.chasers[k].owners = {"enemy"}
               /\ enemies'[i].cooldown = ENEMY_COOLDOWN
               /\ \A m \in 1..Len(log'.chasers) : log'.chasers[m].enemy = i => m = k
       /\ OwnedBy(projectiles', "enemy")
            <= OwnedBy(projectiles, "enemy") + 2 * Len(log'.chasers)]_vars

\* A frame in which one enemy, in range and aimed, has fired, and another
\* active enemy with its cannons ready has not: it was out of range when it
\* decided, and has closed in since.
OneFiredOneTooFar ==
  /\ log.op = "frame"
  /\ Len(log.chasers) > 0
  /\ \E j \in 1..Len(enemies) :
       /\ enemies[j].active
       /\ enemies[j].cooldown <= 0
       /\ \A k \in 1..Len(log.chasers) : log.chasers[k].enemy # j
       /\ decide(enemies[j], player).aligned
       /\ decide(enemies[j], player).inRange

\* Whether a point lies in the world.
InWorld(x, y) == 0 <= x /\ x <= WORLD_SIZE /\ 0 <= y /\ y <= WORLD_SIZE

\* C24: at the end of every frame in which no message is displayed, every
\* projectile in the store has both coordinates in [0, WORLD_SIZE], and
\* every projectile that has hit a ship in the frame was inside the world
\* when it hit: a projectile outside the world, one spawned there by a ship
\* on the border included, is removed in the frame and deals no damage.
ProjectilesInWorld ==
  (log.op = "frame" /\ ~log.paused) =>
    /\ \A k \in 1..Len(projectiles) : InWorld(projectiles[k].x, projectiles[k].y)
    /\ \A k \in 1..Len(log.hits) : InWorld(log.hits[k].x, log.hits[k].y)

\* The player, on the corner of the world, has fired a broadside whose
\* shots to one side were spawned outside the world and removed before the
\* frame ended, the others flying on.
ShotsSpawnedOutside ==
  /\ log.op = "frame" /\ ~log.paused
  /\ player.x = WORLD_SIZE /\ player.y = 0
  /\ log.broadsides # <<>>
  /\ log.outOfBounds >= 3
  /\ Len(projectiles) > 0

\* C25: a ship never fires while its cooldown is positive, the cooldown
\* runs down by the dt of the frames in which no message is displayed, and
\* not at all in the others.  Within a session: a ship that fires in a
\* frame is active, no message is displayed, its cooldown less the frame's
\* dt is <= 0, and the frame leaves its cooldown at the ship's constant (50
\* for the player, 90 for an enemy); a ship that does not fire ends the
\* frame with its cooldown less dt if it is active, no message is displayed
\* and the cooldown is positive, and with its cooldown unchanged otherwise;
\* no other step changes a cooldown.  (So the dt of the frames from one
\* firing to the next one, the latter included, adds up to the constant at
\* least.)
CooldownRunsDownBeforeFiring ==
  [][session' = session =>
       IF frameCount' = frameCount + 1
       THEN /\ IF log'.broadsides # <<>>
               THEN /\ player.active /\ seen.message = NULL
                    /\ player.cooldown - log'.dt <= 0
                    /\ player'.cooldown = CANNON_COOLDOWN
               ELSE player'.cooldown =
                      IF player.active /\ seen.message = NULL /\ player.cooldown > 0
                      THEN player.cooldown - log'.dt ELSE player.cooldown
            /\ \A i \in 1..Len(enemies) :
                 IF \E k \in 1..Len(log'.chasers) : log'.chasers[k].enemy = i
                 THEN /\ enemies[i].active /\ seen.message = NULL
                      /\ enemies[i].cooldown - log'.dt <= 0
                      /\ enemies'[i].cooldown = ENEMY_COOLDOWN
                 ELSE enemies'[i].cooldown =
                        IF enemies[i].active /\ seen.message = NULL
                           /\ enemies[i].cooldown > 0
                        THEN enemies[i].cooldown - log'.dt ELSE enemies[i].cooldown
       ELSE /\ player'.cooldown = player.cooldown
            /\ \A i \in 1..Len(enemies) : enemies'[i].cooldown = enemies[i].cooldown]_vars

\* The player, whose cannons were 2 frames short of ready, has not fired in
\* a first frame of dt = 1 with the fire key down or not, and has fired in
\* the second; the last pirate's cannons have run down too.
FiredOnceReady ==
  /\ log.op = "frame" /\ frameCount = 2 /\ session = 1
  /\ log.dt = 1
  /\ log.broadsides # <<>>
  /\ player.cooldown = CANNON_COOLDOWN
  /\ enemies[9].cooldown <= 0

\* C26: at most one narrative fetch is pending at any time, and a single
\* frame triggers at most one delivery.
OneFetchAtATime ==
  /\ Cardinality(fetches) <= 1
  /\ Len(log.deliveries) <= 1

\* C27: from initGame to the first enemy death of its session the enemy
\* store holds exactly the 3 initial enemies: while every enemy of a
\* session's store is active, the store has 3 records.
ThreeEnemiesUntilFirstDeath ==
  (session > 0 /\ \A i \in 1..Len(enemies) : enemies[i].active) =>
    Len(enemies) = InitialEnemies

\* C28: the enemy store never holds more than 9 records; within a session
\* it never shrinks, a dead enemy stays in it at its index and stays
\* inactive, and once it holds 9 records no later spawn adds one.
EnemyStoreGrowsToNine ==
  /\ Len(enemies) <= EnemyCap + 1
  /\ [][/\ Len(enemies') <= EnemyCap + 1
        /\ session' = session =>
             /\ Len(enemies') >= Len(enemies)
             /\ \A i \in 1..Len(enemies) : ~enemies[i].active => ~enemies'[i].active
             /\ Len(enemies) = EnemyCap + 1 => Len(enemies') = EnemyCap + 1]_vars

\* A respawn timer has fired on a store of 9 records, 6 of them dead, and
\* has added none.
SpawnOnFullStore ==
  /\ log.op = "spawnTimer"
  /\ log.spawns[1].length = EnemyCap + 1
  /\ log.spawns[1].active = 3
  /\ log.spawns[1].added = <<>>
  /\ Len(enemies) = EnemyCap + 1

\* C29: in every state of a session the score is 150 times the number of
\* inactive enemy records plus 500 times the number of delivered islands.
ScoreIsBountiesEarned ==
  score = KillBounty * Cardinality({i \in 1..Len(enemies) : ~enemies[i].active})
          + DeliveryBounty * Cardinality({i \in 1..Len(islands) : islands[i].delivered})

\* A frame has both sunk an enemy and delivered a present.
KillAndDeliveryScored ==
  /\ log.op = "frame"
  /\ log.deliveries # <<>>
  /\ \E k \in 1..Len(log.hits) :
       /\ log.hits[k].target = "enemy"
       /\ ~enemies[log.hits[k].index].active
       /\ log.hits[k].score = KillBounty

\* C30: within a session the player's health never increases, and it
\* changes only in a frame that the player enters active and with no
\* message displayed; a pending fetch alone does not stop the damage.
HealthOnlyFallsInOpenFrames ==
  [][session' = session =>
       /\ player'.health <= player.health
       /\ player'.health # player.health =>
            /\ frameCount' = frameCount + 1
            /\ player.active
            /\ seen.message = NULL]_vars

\* A frame has damaged the player while a narrative fetch was pending and
\* the loading state was displayed.
DamagedWhileLoading ==
  /\ log.op = "frame" /\ ~log.paused
  /\ seen.loadingMessage /\ loadingMessage /\ fetches # {}
  /\ log.deliveries = <<>>
  /\ \E k \in 1..Len(log.hits) :
       /\ log.hits[k].target = "player"
       /\ log.hits[k].after = log.hits[k].before - PlayerHitDamage

\* C31: in every state, so at the end of every frame, the player's position
\* lies inside [0, WORLD_SIZE] on both axes, whatever the keys and the dt;
\* enemies are not clamped: an enemy a frame has moved is where the
\* integration has left it, inside the world or not.
PlayerClampedEnemiesFree ==
  /\ InWorld(player.x, player.y)
  /\ [][/\ InWorld(player'.x, player'.y)
        /\ frameCount' = frameCount + 1 =>
             \A i \in 1..Len(enemies) :
               <<enemies'[i].x, enemies'[i].y>> # <<enemies[i].x, enemies[i].y>> =>
                 \E pose \in EnemyPosesFrom(enemies[i]) :
                   <<enemies'[i].x, enemies'[i].y>> = <<pose.x, pose.y>>]_vars

\* A frame has left the player, whom the integration took beyond the
\* upper right corner, on that corner, and an enemy afloat beyond the
\* upper border.
PlayerHeldEnemyOutside ==
  /\ log.op = "frame" /\ ~log.paused
  /\ player.x = WORLD_SIZE /\ player.y = 0
  /\ player.velocity = <<150, 0>>
  /\ \E i \in 1..Len(enemies) :
       /\ enemies[i].active
       /\ ~InWorld(enemies[i].x, enemies[i].y)

====
